---- MODULE Spec2Model ----
(***************************************************************************)
(* State-machine model of the virtual piano (src/script.js):              *)
(* PianoAudioEngine (voices, sustain pedal, volume), RecordingEngine       *)
(* (recording, timestamped playback), Metronome, AIComposer (mood          *)
(* analysis, melody generation, the composition loop) and the              *)
(* VirtualPiano.pressKey / releaseKey dispatch that ties them together.    *)
(*                                                                         *)
(* JavaScript runs every handler to completion on one event loop, so each  *)
(* handler is one action.  The only suspension point modelled here is the  *)
(* `await` of RecordingEngine.playback; the synchronous part of its loop   *)
(* is stepped one iteration at a time while every other handler and the    *)
(* clock are held back (pbPc = "run").                                     *)
(***************************************************************************)
EXTENDS Integers, Sequences, FiniteSets, TLC

(***************************************************************************)
(* Bounds of the model.                                                    *)
(***************************************************************************)
\* Number of Voices that can sound at once without an entry in the active map.
MaxGhosts == 1
\* Longest recorded sequence the model lets recordNote build.
MaxEvents == 2
\* The wall clock stops advancing at MaxTime (milliseconds).
MaxTime == 1500
\* How far the wall clock may advance between two handlers (milliseconds).
TickSteps == {500}
\* The note identifiers handed to press / release: two entries of the note
\* table and one identifier outside it.
InputNotes == {"C4", "E4", "X9"}
\* The percentages handed to setVolume.
VolumeInputs == {0, 50, 100}
\* The longest analysed text, in words.
MaxWords == 3
\* The values Math.random() returns, in hundredths: the least, the middle
\* and the greatest of [0, 1).
RandomValues == {0, 50, 99}
\* How many compositions are started in one run.
MaxComposes == 2
\* The mood keys handed to compose while the user starts and stops the
\* composer at will: one with a profile, and the fallback of analyzeMood,
\* which has none.
ComposerMoods == {"sunrise", "peaceful"}
\* The mood keys of the compositions that are left to play on their own.
LoopMoods == {"winter", "sunrise"}
\* How long a composition is left to play on its own, in ms.
LoopTime == 3000
\* The moods composed next to the running metronome.
TimerMoods == {"winter"}
\* The granularity of the clock while timers are pending, in ms.
ClockSteps == {250}
\* The note identifiers played while the recorder is exercised.
RecorderNotes == {"C4"}

(***************************************************************************)
(* PianoAudioEngine: constants.                                            *)
(***************************************************************************)
\* noteFrequencies, in hundredths of a hertz.
noteFrequencies ==
    [n \in {"C4", "C#4", "D4", "D#4", "E4", "F4", "F#4", "G4", "G#4", "A4",
            "A#4", "B4", "C5", "C#5", "D5", "D#5", "E5"} |->
        CASE n = "C4"  -> 26163 [] n = "C#4" -> 27718 [] n = "D4"  -> 29366
          [] n = "D#4" -> 31113 [] n = "E4"  -> 32963 [] n = "F4"  -> 34923
          [] n = "F#4" -> 36999 [] n = "G4"  -> 39200 [] n = "G#4" -> 41530
          [] n = "A4"  -> 44000 [] n = "A#4" -> 46616 [] n = "B4"  -> 49388
          [] n = "C5"  -> 52325 [] n = "C#5" -> 55437 [] n = "D5"  -> 58733
          [] n = "D#5" -> 62225 [] n = "E5"  -> 65925]

\* The truthiness test `this.noteFrequencies[note]` of playNote.
HasFrequency(note) ==
    note \in DOMAIN noteFrequencies /\ noteFrequencies[note] # 0

VARIABLES
    \* PianoAudioEngine
    activeNotes,     \* Map note -> Voice (a function; its DOMAIN is the key set)
    sustainActive,   \* sustain pedal flag
    sustainedNotes,  \* Set of notes released while the pedal was down
    live,            \* Voices whose oscillator was started and stop() not yet invoked
    masterGain,      \* masterGain.gain.value, in thousandths
    \* RecordingEngine
    recording,       \* flag
    recordedNotes,   \* Array of [note, timestamp, isPress]
    startTime,       \* Date.now() at startRecording
    captured,        \* number of events pushed since the last startRecording
    \* wall clock
    now,             \* Date.now()
    \* RecordingEngine.playback (one async call at a time)
    pbPc,            \* "idle" | "run" (synchronous part of the loop) | "wait" (awaiting the
                     \* timer) | "done" (returned; the caller's continuation not yet run)
    pbIdx,           \* position of the array iterator (1-based: next element to visit)
    pbStart,         \* the local startTime of playback
    pbWake,          \* the time the pending setTimeout was armed for
    pbShared,        \* TRUE while the iterated array is still this.recordedNotes
    pbOld,           \* contents of the iterated array once startRecording replaced this.recordedNotes
    pbSnap,          \* the recorded sequence at the moment playback was called
    sinkLog,         \* calls playback made on the piano: [note, timestamp, isPress, at]
    \* observation
    lastOp           \* the handler that ran last, with its argument

vmVars == <<activeNotes, sustainActive, sustainedNotes, live>>
recVars == <<recording, recordedNotes, startTime, captured>>
pbVars == <<pbPc, pbIdx, pbStart, pbWake, pbShared, pbOld, pbSnap, sinkLog>>
VARIABLES
    metIsPlaying,    \* Metronome.isPlaying
    metIntervalId,   \* Metronome.intervalId; 0 stands for null
    metTimers,       \* pending setInterval timers: records [id, due]
    metTicks         \* times of the ticks emitted since the last effective start()

VARIABLES
    analyzedText,        \* the last text handed to analyzeMood
    analyzedMood       \* what analyzeMood returned for it

VARIABLES
    melPc,           \* generateMelody: "idle", "run" (inside the switch) or "done"
    melScale,        \* config.scale
    melPattern,      \* config.pattern
    melI,            \* the loop counter i
    melCurrentIndex, \* currentIndex of the gentle / flowing branch
    melody,          \* the melody array
    melReads,        \* the positions of the scale read so far
    melDraws         \* the number of Math.random() calls so far

VARIABLES
    compIsPlaying,      \* AIComposer.isPlaying
    compIntervalId,     \* AIComposer.intervalId; 0 stands for null
    compCurrentMood,    \* the key of AIComposer.currentMood, or "null"
    currentComposition, \* AIComposer.currentComposition, or NullComposition
    compTimers,         \* pending setTimeout timers of the composer
    compGen             \* the number of playComposition calls so far

\* The state outside the engine's note bookkeeping, the recorder and playback.
metVars == <<metIsPlaying, metIntervalId, metTimers, metTicks>>
compVars == <<compIsPlaying, compIntervalId, compCurrentMood, currentComposition, compTimers, compGen>>
\* The activities driven by timers: the metronome and the composer.
bgVars == <<metVars, compVars>>
melVars == <<melPc, melScale, melPattern, melI, melCurrentIndex, melody, melReads, melDraws>>
\* The argument and the result of the last call of a pure function.
pureVars == <<analyzedText, analyzedMood, melVars>>
auxVars == <<masterGain, bgVars, pureVars>>
vars == <<vmVars, recVars, now, pbVars, lastOp, auxVars>>

\* Voice objects: one per note of the table, the ghosts, and the one playNote
\* creates before the Voice it replaces is stopped.
Voices == 1..(Cardinality(DOMAIN noteFrequencies) + MaxGhosts + 1)

\* The engine's fields as one record, so that handlers compose as functions.
Engine ==
    [activeNotes |-> activeNotes, sustainActive |-> sustainActive,
     sustainedNotes |-> sustainedNotes, live |-> live]

\* Map.delete(note)
MapDelete(m, note) == [k \in (DOMAIN m) \ {note} |-> m[k]]

\* Map.set(note, v)
MapSet(m, note, v) == [k \in (DOMAIN m) \cup {note} |-> IF k = note THEN v ELSE m[k]]

\* sound.stop() followed by activeNotes.delete(note), for a note that has a Voice.
StopAndDelete(e, note) ==
    [e EXCEPT !.live = @ \ {e.activeNotes[note]},
              !.activeNotes = MapDelete(@, note)]

\* stopNote with the sustain test left out: a release always stops the Voice.
stopNoteIgnoresSustain(e, note) ==
    IF note \in DOMAIN e.activeNotes
    THEN StopAndDelete(e, note)
    ELSE e

\* stopNote with the `return` of the sustain branch moved: every release is held.
stopNoteAlwaysHolds(e, note) ==
    LET e1 == [e EXCEPT !.sustainedNotes = @ \cup {note}]
    IN  IF e.sustainActive
        THEN e1
        ELSE IF note \in DOMAIN e.activeNotes
             THEN StopAndDelete(e1, note)
             ELSE e1

\* stopNote that stops the Voice and forgets activeNotes.delete(note).
stopNoteNoDelete(e, note) ==
    IF e.sustainActive
    THEN [e EXCEPT !.sustainedNotes = @ \cup {note}]
    ELSE IF note \in DOMAIN e.activeNotes
         THEN [e EXCEPT !.live = @ \ {e.activeNotes[note]}]
         ELSE e

\* PianoAudioEngine.stopNote(note)
stopNote(e, note) ==
    IF e.sustainActive
    THEN [e EXCEPT !.sustainedNotes = @ \cup {note}]
    ELSE IF note \in DOMAIN e.activeNotes
         THEN StopAndDelete(e, note)
         ELSE e

\* createPianoSound: a Voice object distinct from every Voice that is live
\* when playNote is entered.
NewVoice(e) == CHOOSE v \in Voices : v \notin e.live /\ \A w \in Voices : w < v => w \in e.live

\* The Voices that sound without an entry in the active map.
Ghosts(e) == {v \in e.live : \A n \in DOMAIN e.activeNotes : e.activeNotes[n] # v}

\* playNote on a note whose Voice stopNote leaves sounding adds a ghost: the
\* model stops at MaxGhosts of them.
CanPlay(e, note) ==
    (HasFrequency(note) /\ note \in DOMAIN e.activeNotes /\ e.sustainActive) =>
        Cardinality(Ghosts(e)) < MaxGhosts

\* PianoAudioEngine.playNote(note)
playNote(e, note) ==
    IF ~HasFrequency(note)
    THEN e
    ELSE LET e1 == IF note \in DOMAIN e.activeNotes THEN stopNote(e, note) ELSE e
             v == NewVoice(e)
         IN  [e1 EXCEPT !.live = @ \cup {v},
                        !.activeNotes = MapSet(@, note, v)]

\* setSustain with the Voices of the held notes stopped but left in the map.
setSustainKeepsEntries(e, active) ==
    LET e1 == [e EXCEPT !.sustainActive = active]
        held == {n \in e.sustainedNotes : n \in DOMAIN e.activeNotes}
    IN  IF active
        THEN e1
        ELSE [e1 EXCEPT !.live = @ \ {e.activeNotes[n] : n \in held},
                        !.sustainedNotes = {}]

\* PianoAudioEngine.setSustain(active)
setSustain(e, active) ==
    LET e1 == [e EXCEPT !.sustainActive = active]
        held == {n \in e.sustainedNotes : n \in DOMAIN e.activeNotes}
    IN  IF active
        THEN e1
        ELSE [e1 EXCEPT !.live = @ \ {e.activeNotes[n] : n \in held},
                        !.activeNotes = [k \in (DOMAIN @) \ held |-> @[k]],
                        !.sustainedNotes = {}]

\* setVolume with the division by 100 left out.
setVolumeRaw(value) == value * 1000

\* PianoAudioEngine.setVolume(value): the gain value / 100, in thousandths.
setVolume(value) == (value * 1000) \div 100

\* Write an engine record back to the engine's fields.
SetEngine(e) ==
    /\ activeNotes' = e.activeNotes
    /\ sustainActive' = e.sustainActive
    /\ sustainedNotes' = e.sustainedNotes
    /\ live' = e.live

(***************************************************************************)
(* RecordingEngine.                                                        *)
(***************************************************************************)
Recorder ==
    [recording |-> recording, recordedNotes |-> recordedNotes,
     startTime |-> startTime, captured |-> captured]

\* startRecording that keeps the previous array.
startRecordingKeeps(r, t) ==
    [r EXCEPT !.recording = TRUE, !.startTime = t, !.captured = 0]

\* RecordingEngine.startRecording() at wall-clock time t
startRecording(r, t) ==
    [r EXCEPT !.recording = TRUE, !.recordedNotes = <<>>, !.startTime = t,
              !.captured = 0]

\* RecordingEngine.stopRecording()
stopRecording(r) == [r EXCEPT !.recording = FALSE]

\* recordNote without the `if (!this.recording) return;` guard.
recordNoteAlways(r, note, isPress, t) ==
    [r EXCEPT !.recordedNotes =
                  Append(@, [note |-> note, timestamp |-> t - r.startTime,
                             isPress |-> isPress]),
              !.captured = @ + 1]

\* recordNote with the subtraction turned round: anchor minus now.
recordNoteNegated(r, note, isPress, t) ==
    IF ~r.recording
    THEN r
    ELSE [r EXCEPT !.recordedNotes =
                       Append(@, [note |-> note, timestamp |-> r.startTime - t,
                                  isPress |-> isPress]),
                   !.captured = @ + 1]

\* RecordingEngine.recordNote(note, isPress) at wall-clock time t
recordNote(r, note, isPress, t) ==
    IF ~r.recording
    THEN r
    ELSE [r EXCEPT !.recordedNotes =
                       Append(@, [note |-> note, timestamp |-> t - r.startTime,
                                  isPress |-> isPress]),
                   !.captured = @ + 1]

\* RecordingEngine.hasRecording()
hasRecording(r) == Len(r.recordedNotes) > 0

\* recordNote can push (bound of the model).
CanRecord == recording => Len(recordedNotes) < MaxEvents

SetRecorder(r) ==
    /\ recording' = r.recording
    /\ recordedNotes' = r.recordedNotes
    /\ startTime' = r.startTime
    /\ captured' = r.captured

(***************************************************************************)
(* VirtualPiano.pressKey / releaseKey: the engine call, then the recorder  *)
(* tap.  (Key highlighting, the avatar and the notesPlayed counter are UI.)*)
(***************************************************************************)
pressKey(note) ==
    /\ SetEngine(playNote(Engine, note))
    /\ SetRecorder(recordNote(Recorder, note, TRUE, now))

releaseKey(note) ==
    /\ SetEngine(stopNote(Engine, note))
    /\ SetRecorder(recordNote(Recorder, note, FALSE, now))

\* What a handler leaves in lastOp: its name, its argument and the Voices it stopped.
Op(op, arg) == [op |-> op, arg |-> arg, stopped |-> live \ live']

\* The same for a handler that does not reach the audio engine.
QuietOp(op, arg) == [op |-> op, arg |-> arg, stopped |-> {}]

\* No handler starts while synchronous code of playback or of its caller is running.
Ready == pbPc \in {"idle", "wait"}

(***************************************************************************)
(* Handlers driven by the user.                                            *)
(***************************************************************************)
PressKey(note) ==
    /\ UNCHANGED auxVars
    /\ Ready
    /\ CanPlay(Engine, note)
    /\ CanRecord
    /\ pressKey(note)
    /\ lastOp' = Op("pressKey", note)
    /\ UNCHANGED <<now, pbVars>>

ReleaseKey(note) ==
    /\ UNCHANGED auxVars
    /\ Ready
    /\ CanRecord
    /\ releaseKey(note)
    /\ lastOp' = Op("releaseKey", note)
    /\ UNCHANGED <<now, pbVars>>

SetSustain(active) ==
    /\ UNCHANGED auxVars
    /\ Ready
    /\ SetEngine(setSustain(Engine, active))
    /\ lastOp' = Op("setSustain", IF active THEN "true" ELSE "false")
    /\ UNCHANGED <<recVars, now, pbVars>>

\* The volume slider: PianoAudioEngine.setVolume(value).
SetVolume(value) ==
    /\ Ready
    /\ masterGain' = setVolume(value)
    /\ UNCHANGED <<vmVars, recVars, now, pbVars, bgVars, pureVars>>
    /\ lastOp' = QuietOp("setVolume", "-")

StartRecording ==
    /\ UNCHANGED auxVars
    /\ Ready
    /\ SetRecorder(startRecording(Recorder, now))
    \* `this.recordedNotes = []` leaves a running playback iterating the old array
    /\ IF pbPc = "wait" /\ pbShared
       THEN pbShared' = FALSE /\ pbOld' = recordedNotes
       ELSE UNCHANGED <<pbShared, pbOld>>
    /\ lastOp' = QuietOp("startRecording", "-")
    /\ UNCHANGED <<vmVars, now, pbPc, pbIdx, pbStart, pbWake, pbSnap, sinkLog>>

StopRecording ==
    /\ UNCHANGED auxVars
    /\ Ready
    /\ SetRecorder(stopRecording(Recorder))
    /\ lastOp' = QuietOp("stopRecording", "-")
    /\ UNCHANGED <<vmVars, now, pbVars>>

\* The wall clock advances between handlers.
Tick ==
    /\ UNCHANGED auxVars
    /\ Ready
    /\ \E d \in TickSteps : now + d <= MaxTime /\ now' = now + d
    /\ UNCHANGED <<vmVars, recVars, pbVars, lastOp>>

(***************************************************************************)
(* RecordingEngine.playback(piano).                                        *)
(***************************************************************************)
\* The array the for-of iterator walks.
IterArr == IF pbShared THEN recordedNotes ELSE pbOld

\* The delay computed from the anchor alone, the event's offset forgotten.
PbDelayNoOffset(event) == pbStart - now

\* delay = (startTime + event.timestamp) - Date.now()
PbDelay(event) == (pbStart + event.timestamp) - now

\* piano.pressKey(event.note) or piano.releaseKey(event.note)
Dispatch(event) ==
    /\ CanPlay(Engine, event.note)
    /\ CanRecord
    /\ IF event.isPress THEN pressKey(event.note) ELSE releaseKey(event.note)
    /\ sinkLog' = Append(sinkLog, [note |-> event.note, timestamp |-> event.timestamp,
                                   isPress |-> event.isPress, at |-> now])
    /\ lastOp' = Op(IF event.isPress THEN "playbackPress" ELSE "playbackRelease", event.note)

\* The call: `if (this.recordedNotes.length === 0) return;` then the anchor.
\* (playRecording disables the playback button until the call has returned.)
Playback ==
    /\ UNCHANGED auxVars
    /\ pbPc = "idle"
    /\ IF Len(recordedNotes) = 0
       THEN /\ lastOp' = QuietOp("playback", "empty")
            /\ UNCHANGED pbVars
       ELSE /\ pbPc' = "run"
            /\ pbSnap' = recordedNotes
            /\ sinkLog' = <<>>
            /\ pbIdx' = 1
            /\ pbStart' = now
            /\ pbWake' = 0
            /\ pbShared' = TRUE
            /\ pbOld' = <<>>
            /\ lastOp' = QuietOp("playback", "start")
    /\ UNCHANGED <<vmVars, recVars, now>>

\* One turn of the for-of loop, up to the await or the dispatch.
PbLoop ==
    /\ UNCHANGED auxVars
    /\ pbPc = "run"
    /\ IF pbIdx > Len(IterArr)
       THEN /\ pbPc' = "done"
            /\ lastOp' = QuietOp("playback", "done")
            /\ UNCHANGED <<vmVars, recVars, now, pbIdx, pbStart, pbWake, pbShared,
                           pbOld, pbSnap, sinkLog>>
       ELSE IF PbDelay(IterArr[pbIdx]) > 0
            THEN /\ pbPc' = "wait"
                 /\ pbWake' = now + PbDelay(IterArr[pbIdx])
                 /\ UNCHANGED <<vmVars, recVars, now, pbIdx, pbStart, pbShared,
                                pbOld, pbSnap, sinkLog, lastOp>>
            ELSE /\ Dispatch(IterArr[pbIdx])
                 /\ pbIdx' = pbIdx + 1
                 /\ UNCHANGED <<now, pbPc, pbStart, pbWake, pbShared, pbOld, pbSnap>>

\* The timer of `await new Promise(resolve => setTimeout(resolve, delay))` fires,
\* no earlier than it was armed for, and the loop body continues.
PbTimer ==
    /\ UNCHANGED auxVars
    /\ pbPc = "wait"
    /\ now >= pbWake
    /\ Dispatch(IterArr[pbIdx])
    /\ pbIdx' = pbIdx + 1
    /\ pbPc' = "run"
    /\ UNCHANGED <<now, pbStart, pbWake, pbShared, pbOld, pbSnap>>

\* VirtualPiano.playRecording resumes after `await this.recordingEngine.playback(this)`
\* and enables the playback button again; the finished call's locals are gone.
PbReturn ==
    /\ UNCHANGED auxVars
    /\ pbPc = "done"
    /\ pbPc' = "idle"
    /\ pbIdx' = 1
    /\ pbStart' = 0
    /\ pbWake' = 0
    /\ pbShared' = TRUE
    /\ pbOld' = <<>>
    /\ pbSnap' = <<>>
    /\ sinkLog' = <<>>
    /\ lastOp' = QuietOp("playback", "returned")
    /\ UNCHANGED <<vmVars, recVars, now>>

(***************************************************************************)
(* Metronome.  A timer handle is an opaque positive number; a handle that  *)
(* is neither pending nor stored anywhere can be handed out again.         *)
(***************************************************************************)
bpm == 120

Met ==
    [isPlaying |-> metIsPlaying, intervalId |-> metIntervalId,
     timers |-> metTimers, ticks |-> metTicks]

\* clearTimeout(id) and clearInterval(id) on one list of pending timers: the
\* window keeps a single table of handles, so either call cancels whichever
\* timer bears the handle.
ClearTimer(timers, id) == {t \in timers : t.id # id}

\* The handle returned by setInterval.
NewTimerId(m) ==
    LET used == {t.id : t \in m.timers} \cup {m.intervalId}
                \cup {t.id : t \in compTimers} \cup {compIntervalId}
    IN  CHOOSE i \in 1..(Cardinality(used) + 1) :
            i \notin used /\ \A j \in 1..(i - 1) : j \in used

\* Metronome.tick(): one blip, observed in the tick log.
metronomeTick(m, t) == [m EXCEPT !.ticks = Append(@, t)]

\* start() without its isPlaying guard.
metronomeStartUnguarded(m, t) ==
    LET interval == (60 * 1000) \div bpm
        id == NewTimerId(m)
    IN  [m EXCEPT !.isPlaying = TRUE,
                  !.ticks = IF m.isPlaying THEN Append(@, t) ELSE <<t>>,
                  !.intervalId = id,
                  !.timers = @ \cup {[id |-> id, due |-> t + interval]}]

\* Metronome.start()
metronomeStart(m, t) ==
    IF m.isPlaying
    THEN m
    ELSE LET interval == (60 * 1000) \div bpm
             id == NewTimerId(m)
         IN  [m EXCEPT !.isPlaying = TRUE,
                       !.ticks = <<t>>,
                       !.intervalId = id,
                       !.timers = @ \cup {[id |-> id, due |-> t + interval]}]

\* Metronome.stop()
metronomeStop(m) ==
    IF m.intervalId # 0
    THEN [m EXCEPT !.isPlaying = FALSE,
                   !.timers = {t \in @ : t.id # m.intervalId},
                   !.intervalId = 0]
    ELSE [m EXCEPT !.isPlaying = FALSE]

SetMet(m) ==
    /\ metIsPlaying' = m.isPlaying
    /\ metIntervalId' = m.intervalId
    /\ metTimers' = m.timers
    /\ metTicks' = m.ticks

MetFrame == UNCHANGED <<vmVars, recVars, now, pbVars, masterGain, pureVars, compVars>>

\* What a handler of the metronome that calls clearInterval(id) leaves alone;
\* id is 0 when the call is not made.
MetClearFrame(id) ==
    /\ compTimers' = ClearTimer(compTimers, id)
    /\ UNCHANGED <<compIsPlaying, compIntervalId, compCurrentMood, currentComposition, compGen>>
    /\ UNCHANGED <<vmVars, recVars, now, pbVars, masterGain, pureVars>>

MetStart ==
    /\ Ready
    /\ SetMet(metronomeStart(Met, now))
    /\ MetFrame
    /\ lastOp' = QuietOp("metronome.start", "-")

MetStop ==
    /\ Ready
    /\ SetMet(metronomeStop(Met))
    /\ MetClearFrame(metIntervalId)
    /\ lastOp' = QuietOp("metronome.stop", "-")

\* VirtualPiano.toggleMetronome()
ToggleMetronome ==
    /\ Ready
    /\ SetMet(IF metIsPlaying THEN metronomeStop(Met) ELSE metronomeStart(Met, now))
    /\ MetClearFrame(IF metIsPlaying THEN metIntervalId ELSE 0)
    /\ lastOp' = QuietOp("toggleMetronome", "-")

\* A pending interval timer comes due: the callback ticks and the timer is
\* armed again one interval later.
MetTimer ==
    /\ Ready
    /\ \E t \in metTimers :
          /\ t.due <= now
          /\ LET interval == (60 * 1000) \div bpm
                 m == metronomeTick(Met, now)
             IN  SetMet([m EXCEPT !.timers = (@ \ {t}) \cup {[id |-> t.id, due |-> t.due + interval]}])
    /\ MetFrame
    /\ lastOp' = QuietOp("metronome.tick", "-")

\* The clock of a composition left to play on its own: straight to the next
\* timer that is due.
Elapse ==
    /\ Ready
    /\ compTimers # {}
    /\ \A t \in compTimers : t.due > now
    /\ LET next == CHOOSE d \in {t.due : t \in compTimers} : \A t \in compTimers : d <= t.due
       IN  /\ next <= LoopTime
           /\ now' = next
    /\ UNCHANGED <<vmVars, recVars, pbVars, auxVars>>
    /\ lastOp' = QuietOp("elapse", "-")

\* The due times of the pending timers.
Dues == {t.due : t \in metTimers \cup compTimers}

\* Time passes, but never past a timer that is due.
Advance ==
    /\ Ready
    /\ now < MaxTime
    /\ \A d \in Dues : d > now
    /\ \E step \in ClockSteps :
          LET target == now + step
              sooner == {d \in Dues : d < target}
          IN  now' = IF sooner = {} THEN target
                     ELSE CHOOSE d \in sooner : \A e \in sooner : d <= e
    /\ UNCHANGED <<vmVars, recVars, pbVars, auxVars>>
    /\ lastOp' = QuietOp("advance", "-")

(***************************************************************************)
(* AIComposer.analyzeMood(moodText).  A text is a sequence of characters.  *)
(***************************************************************************)
\* String.prototype.toLowerCase on one character of the Latin alphabet.
toLowerCaseChar(c) ==
    CASE c = "A" -> "a"
      [] c = "B" -> "b"
      [] c = "C" -> "c"
      [] c = "D" -> "d"
      [] c = "E" -> "e"
      [] c = "F" -> "f"
      [] c = "G" -> "g"
      [] c = "H" -> "h"
      [] c = "I" -> "i"
      [] c = "J" -> "j"
      [] c = "K" -> "k"
      [] c = "L" -> "l"
      [] c = "M" -> "m"
      [] c = "N" -> "n"
      [] c = "O" -> "o"
      [] c = "P" -> "p"
      [] c = "Q" -> "q"
      [] c = "R" -> "r"
      [] c = "S" -> "s"
      [] c = "T" -> "t"
      [] c = "U" -> "u"
      [] c = "V" -> "v"
      [] c = "W" -> "w"
      [] c = "X" -> "x"
      [] c = "Y" -> "y"
      [] c = "Z" -> "z"
      [] OTHER -> c

toLowerCase(text) == [i \in 1..Len(text) |-> toLowerCaseChar(text[i])]

\* String.prototype.includes
includes(text, word) ==
    \E k \in 0..(Len(text) - Len(word)) :
        \A i \in 1..Len(word) : text[k + i] = word[i]

\* The keyword table, in its insertion order (the order of Object.entries).
keywords ==
    <<[mood |-> "spring",
       words |-> <<<<"s", "p", "r", "i", "n", "g">>,
                   <<"b", "l", "o", "o", "m">>,
                   <<"f", "l", "o", "w", "e", "r">>,
                   <<"f", "r", "e", "s", "h">>,
                   <<"r", "e", "n", "e", "w", "a", "l">>>>],
      [mood |-> "summer",
       words |-> <<<<"s", "u", "m", "m", "e", "r">>,
                   <<"s", "u", "n">>,
                   <<"b", "r", "i", "g", "h", "t">>,
                   <<"w", "a", "r", "m">>,
                   <<"v", "i", "b", "r", "a", "n", "t">>>>],
      [mood |-> "autumn",
       words |-> <<<<"a", "u", "t", "u", "m", "n">>,
                   <<"f", "a", "l", "l">>,
                   <<"m", "e", "l", "a", "n", "c", "h", "o", "l", "y">>,
                   <<"n", "o", "s", "t", "a", "l", "g", "i", "c">>,
                   <<"l", "e", "a", "v", "e", "s">>>>],
      [mood |-> "winter",
       words |-> <<<<"w", "i", "n", "t", "e", "r">>,
                   <<"s", "n", "o", "w">>,
                   <<"c", "o", "l", "d">>,
                   <<"s", "e", "r", "e", "n", "e">>,
                   <<"q", "u", "i", "e", "t">>>>],
      [mood |-> "rain",
       words |-> <<<<"r", "a", "i", "n">>,
                   <<"d", "r", "i", "z", "z", "l", "e">>,
                   <<"w", "e", "t">>,
                   <<"d", "r", "o", "p", "s">>>>],
      [mood |-> "storm",
       words |-> <<<<"s", "t", "o", "r", "m">>,
                   <<"t", "h", "u", "n", "d", "e", "r">>,
                   <<"l", "i", "g", "h", "t", "n", "i", "n", "g">>,
                   <<"i", "n", "t", "e", "n", "s", "e">>,
                   <<"d", "r", "a", "m", "a", "t", "i", "c">>>>],
      [mood |-> "sunrise",
       words |-> <<<<"s", "u", "n", "r", "i", "s", "e">>,
                   <<"d", "a", "w", "n">>,
                   <<"m", "o", "r", "n", "i", "n", "g">>,
                   <<"h", "o", "p", "e">>,
                   <<"b", "e", "g", "i", "n", "n", "i", "n", "g">>>>],
      [mood |-> "night",
       words |-> <<<<"n", "i", "g", "h", "t">>,
                   <<"e", "v", "e", "n", "i", "n", "g">>,
                   <<"d", "a", "r", "k">>,
                   <<"p", "e", "a", "c", "e", "f", "u", "l">>,
                   <<"c", "a", "l", "m">>>>],
      [mood |-> "joy",
       words |-> <<<<"j", "o", "y">>,
                   <<"h", "a", "p", "p", "y">>,
                   <<"c", "h", "e", "e", "r", "f", "u", "l">>,
                   <<"e", "x", "c", "i", "t", "e", "d">>,
                   <<"c", "e", "l", "e", "b", "r", "a", "t", "i", "o", "n">>>>],
      [mood |-> "sadness",
       words |-> <<<<"s", "a", "d">>,
                   <<"s", "o", "r", "r", "o", "w">>,
                   <<"g", "r", "i", "e", "f">>,
                   <<"l", "o", "n", "e", "l", "y">>,
                   <<"d", "e", "p", "r", "e", "s", "s", "e", "d">>>>],
      [mood |-> "romantic",
       words |-> <<<<"l", "o", "v", "e">>,
                   <<"r", "o", "m", "a", "n", "t", "i", "c">>,
                   <<"p", "a", "s", "s", "i", "o", "n">>,
                   <<"t", "e", "n", "d", "e", "r">>,
                   <<"a", "f", "f", "e", "c", "t", "i", "o", "n">>>>],
      [mood |-> "epic",
       words |-> <<<<"e", "p", "i", "c">>,
                   <<"h", "e", "r", "o", "i", "c">>,
                   <<"g", "r", "a", "n", "d">>,
                   <<"a", "d", "v", "e", "n", "t", "u", "r", "e">>,
                   <<"b", "a", "t", "t", "l", "e">>>>]>>

\* words.filter(word => text.includes(word)).length
KeywordScore(text, words) ==
    Cardinality({i \in 1..Len(words) : includes(text, words[i])})

\* The scan in which a later mood with an equal score replaces the best one.
RECURSIVE ScanLastWins(_, _, _, _)
ScanLastWins(text, i, bestMatch, maxScore) ==
    IF i > Len(keywords)
    THEN bestMatch
    ELSE LET score == KeywordScore(text, keywords[i].words)
         IN  IF score >= maxScore
             THEN ScanLastWins(text, i + 1, keywords[i].mood, score)
             ELSE ScanLastWins(text, i + 1, bestMatch, maxScore)

analyzeMoodLastWins(moodText) == ScanLastWins(toLowerCase(moodText), 1, "peaceful", 0)

\* The for-of loop over the moods, from entry i on.
RECURSIVE ScanMoods(_, _, _, _)
ScanMoods(text, i, bestMatch, maxScore) ==
    IF i > Len(keywords)
    THEN bestMatch
    ELSE LET score == KeywordScore(text, keywords[i].words)
         IN  IF score > maxScore
             THEN ScanMoods(text, i + 1, keywords[i].mood, score)
             ELSE ScanMoods(text, i + 1, bestMatch, maxScore)

analyzeMood(moodText) == ScanMoods(toLowerCase(moodText), 1, "peaceful", 0)

\* The words the analysed texts are made of.
MoodWords ==
    {<<"I">>,
     <<"r", "a", "i", "n">>,
     <<"t", "h", "u", "n", "d", "e", "r">>,
     <<"S", "u", "n", "r", "i", "s", "e">>,
     <<"S", "A", "D">>,
     <<"s", "n", "o", "w", "s", "t", "o", "r", "m">>,
     <<"c", "o", "l", "d">>,
     <<"a", "n", "d">>}

\* The texts grow by one word at a time, up to MaxWords words separated by
\* blanks.
WordCount(text) ==
    IF Len(text) = 0 THEN 0
    ELSE 1 + Cardinality({i \in 1..Len(text) : text[i] = " "})

AddWord(text, word) ==
    IF Len(text) = 0 THEN word ELSE text \o <<" ">> \o word

ExampleText ==
    <<"I", " ", "f", "e", "e", "l", " ", "t", "h", "e", " ", "r", "a", "i", "n", " ", "a", "n", "d", " ", "t", "h", "u", "n", "d", "e", "r">>

\* The text box is analysed.
AnalyzeMood(text) ==
    /\ Ready
    /\ analyzedText' = text
    /\ analyzedMood' = analyzeMood(text)
    /\ UNCHANGED <<vmVars, recVars, now, pbVars, masterGain, bgVars, melVars>>
    /\ lastOp' = QuietOp("analyzeMood", "-")

(***************************************************************************)
(* AIComposer.generateMelody(config), one loop iteration at a time.  An    *)
(* array read outside the array yields undefined.                          *)
(***************************************************************************)
scales ==
    [major      |-> <<"C4", "D4", "E4", "F4", "G4", "A4", "B4", "C5", "D5", "E5">>,
     minor      |-> <<"C4", "D4", "D#4", "F4", "G4", "G#4", "A#4", "C5", "D5", "D#5">>,
     pentatonic |-> <<"C4", "D4", "E4", "G4", "A4", "C5", "D5", "E5">>,
     blues      |-> <<"C4", "D#4", "F4", "F#4", "G4", "A#4", "C5", "D#5">>,
     harmonic   |-> <<"C4", "D4", "D#4", "F4", "G4", "G#4", "B4", "C5">>,
     chromatic  |-> <<"C4", "C#4", "D4", "D#4", "E4", "F4", "F#4", "G4", "G#4", "A4", "A#4", "B4", "C5">>]

\* The tags with a case of their own, and one tag that takes the default case.
PatternTags ==
    {"ascending", "descending", "playful", "cascading", "chaotic", "gentle",
     "flowing", "jumping", "heroic", "sparse", "other"}

MathMin(a, b) == IF a <= b THEN a ELSE b
MathMax(a, b) == IF a >= b THEN a ELSE b

\* Math.floor(Math.random() * n) for the draw r.
FloorRandomTimes(r, n) == (r * n) \div 100

\* scale[k], positions counted from 0.
At(scale, k) == IF k \in 0..(Len(scale) - 1) THEN scale[k + 1] ELSE "undefined"

\* a || b without the alternative.
OrElseNothing(a, b) == a

\* a || b on note names and undefined.
OrElse(a, b) == IF a = "undefined" THEN b ELSE a

\* i * 2 + 1 in place of i * 2.
SparseIndexOdd(i) == i * 2 + 1

\* The position read by the sparse branch.
SparseIndex(i) == i * 2

Mel ==
    [i |-> melI, currentIndex |-> melCurrentIndex, melody |-> melody,
     reads |-> melReads, draws |-> melDraws]

\* melody.push(scale[k])
Push(g, scale, k) ==
    [g EXCEPT !.melody = Append(@, At(scale, k)), !.reads = @ \cup {k}]

\* The two push statements of the heroic branch.
Heroic(g, scale) ==
    [g EXCEPT !.melody = @ \o <<At(scale, 0), At(scale, 2), At(scale, 4), At(scale, 7),
                                OrElse(At(scale, 9), At(scale, 7)),
                                At(scale, 7), At(scale, 4), At(scale, 2), At(scale, 0)>>,
              !.reads = @ \cup {0, 2, 4, 7, 9}]

\* Whether the branch of the pattern calls Math.random().
UsesRandom(pattern) ==
    pattern \notin {"ascending", "descending", "heroic", "sparse"}

\* One iteration of the loop of the pattern's branch, with the draw r.
Iteration(pattern, scale, g, r) ==
    LET last == Len(scale) - 1
        drawn == [g EXCEPT !.draws = @ + 1]
    IN  CASE pattern = "ascending" ->
                [Push(g, scale, MathMin(g.i, last)) EXCEPT !.i = @ + 1]
          [] pattern = "descending" ->
                [Push(g, scale, MathMin(g.i, last)) EXCEPT !.i = @ - 1]
          [] pattern = "playful" ->
                LET jump == FloorRandomTimes(r, 4) - 2
                    index == MathMax(0, MathMin(last, g.i + jump))
                IN  [Push(drawn, scale, index) EXCEPT !.i = @ + 1]
          [] pattern \in {"gentle", "flowing"} ->
                LET moved == g.currentIndex + (IF r > 50 THEN 1 ELSE -1)
                IN  [Push(drawn, scale, g.currentIndex) EXCEPT
                        !.currentIndex = MathMax(0, MathMin(last, moved)),
                        !.i = @ + 1]
          [] pattern = "heroic" ->
                [Heroic(g, scale) EXCEPT !.i = 8]
          [] pattern = "sparse" ->
                [Push(g, scale, SparseIndex(g.i)) EXCEPT !.i = @ + 1]
          [] OTHER ->
                [Push(drawn, scale, FloorRandomTimes(r, Len(scale))) EXCEPT !.i = @ + 1]

\* The loop condition of the pattern's branch.
LoopGoesOn(pattern, i) ==
    CASE pattern = "descending" -> i >= 0
      [] pattern = "sparse" -> i < 4
      [] OTHER -> i < 8

\* The locals on entry of the pattern's branch.
MelStart(scale, pattern) ==
    [i |-> IF pattern = "descending" THEN 7 ELSE 0,
     currentIndex |-> IF pattern \in {"gentle", "flowing"} THEN Len(scale) \div 2 ELSE 0,
     melody |-> <<>>, reads |-> {}, draws |-> 0]

\* The branch run to its end with the draws rs, in the order they are made.
RECURSIVE RunMelody(_, _, _, _)
RunMelody(pattern, scale, g, rs) ==
    IF LoopGoesOn(pattern, g.i)
    THEN RunMelody(pattern, scale,
                   Iteration(pattern, scale, g,
                             IF UsesRandom(pattern) THEN rs[g.draws + 1] ELSE 0),
                   rs)
    ELSE g.melody

\* AIComposer.generateMelody(config) as a function of the draws.
generateMelody(config, rs) ==
    RunMelody(config.pattern, scales[config.scale],
              MelStart(scales[config.scale], config.pattern), rs)

\* The sequences of draws one call of generateMelody can make.
MelodyDraws(pattern) ==
    IF UsesRandom(pattern) THEN [1..8 -> RandomValues] ELSE {<<>>}

SetMel(g) ==
    /\ melI' = g.i
    /\ melCurrentIndex' = g.currentIndex
    /\ melody' = g.melody
    /\ melReads' = g.reads
    /\ melDraws' = g.draws

MelFrame == UNCHANGED <<vmVars, recVars, now, pbVars, masterGain, bgVars, analyzedText, analyzedMood>>

\* generateMelody is entered: the scale is looked up and the melody is empty.
GenerateMelody(scaleName, pattern) ==
    /\ Ready
    /\ melPc = "idle"
    /\ melPc' = "run"
    /\ melScale' = scaleName
    /\ melPattern' = pattern
    /\ SetMel(MelStart(scales[scaleName], pattern))
    /\ MelFrame
    /\ lastOp' = QuietOp("generateMelody", pattern)

MelStep ==
    /\ melPc = "run"
    /\ LoopGoesOn(melPattern, melI)
    /\ \E r \in (IF UsesRandom(melPattern) THEN RandomValues ELSE {0}) :
          SetMel(Iteration(melPattern, scales[melScale], Mel, r))
    /\ UNCHANGED <<melPc, melScale, melPattern, lastOp>>
    /\ MelFrame

\* return melody
MelReturn ==
    /\ melPc = "run"
    /\ ~LoopGoesOn(melPattern, melI)
    /\ melPc' = "done"
    /\ UNCHANGED <<melScale, melPattern, melI, melCurrentIndex, melody, melReads, melDraws, lastOp>>
    /\ MelFrame

\* The caller has taken the returned array; the locals of the call are gone.
MelTaken ==
    /\ melPc = "done"
    /\ melPc' = "idle"
    /\ SetMel([i |-> 0, currentIndex |-> 0, melody |-> <<>>, reads |-> {}, draws |-> 0])
    /\ UNCHANGED <<melScale, melPattern, lastOp>>
    /\ MelFrame

(***************************************************************************)
(* AIComposer: compose, playComposition and stop.  The cursors of a        *)
(* playComposition closure travel with its one pending tick timer.         *)
(***************************************************************************)
chordProgressions ==
    [happy      |-> << <<"C4", "E4", "G4">>, <<"F4", "A4", "C5">>, <<"G4", "B4", "D5">>, <<"C4", "E4", "G4">> >>,
     sad        |-> << <<"C4", "D#4", "G4">>, <<"G#4", "C5", "D#5">>, <<"F4", "G#4", "C5">>, <<"C4", "D#4", "G4">> >>,
     peaceful   |-> << <<"C4", "E4", "G4">>, <<"G4", "B4", "D5">>, <<"A4", "C5", "E5">>, <<"F4", "A4", "C5">> >>,
     energetic  |-> << <<"C4", "E4", "G4">>, <<"D4", "F#4", "A4">>, <<"G4", "B4", "D5">>, <<"C4", "E4", "G4">> >>,
     mysterious |-> << <<"C4", "D#4", "F#4">>, <<"D4", "F4", "G#4">>, <<"C4", "E4", "G#4">>, <<"C4", "D#4", "F#4">> >>,
     romantic   |-> << <<"C4", "E4", "G4">>, <<"A4", "C5", "E5">>, <<"F4", "A4", "C5">>, <<"G4", "B4", "D5">> >>,
     epic       |-> << <<"C4", "E4", "G4">>, <<"D4", "F#4", "A4">>, <<"E4", "G#4", "B4">>, <<"C4", "E4", "G4">> >>]

rhythms ==
    [slow       |-> <<800, 1200, 800, 1600>>,
     moderate   |-> <<400, 600, 400, 800>>,
     fast       |-> <<200, 300, 200, 400>>,
     flowing    |-> <<500, 500, 500, 500>>,
     syncopated |-> <<300, 200, 500, 400>>]

\* The musical fields of the mood profiles (names and descriptions are UI).
moodConfigs ==
    [spring   |-> [scale |-> "pentatonic", progression |-> "happy",      rhythm |-> "moderate",   tempo |-> 450, pattern |-> "ascending"],
     summer   |-> [scale |-> "major",      progression |-> "energetic",  rhythm |-> "fast",       tempo |-> 350, pattern |-> "playful"],
     autumn   |-> [scale |-> "minor",      progression |-> "sad",        rhythm |-> "slow",       tempo |-> 600, pattern |-> "descending"],
     winter   |-> [scale |-> "harmonic",   progression |-> "peaceful",   rhythm |-> "slow",       tempo |-> 700, pattern |-> "sparse"],
     rain     |-> [scale |-> "blues",      progression |-> "sad",        rhythm |-> "flowing",    tempo |-> 500, pattern |-> "cascading"],
     storm    |-> [scale |-> "chromatic",  progression |-> "mysterious", rhythm |-> "syncopated", tempo |-> 300, pattern |-> "chaotic"],
     sunrise  |-> [scale |-> "major",      progression |-> "happy",      rhythm |-> "slow",       tempo |-> 550, pattern |-> "ascending"],
     night    |-> [scale |-> "pentatonic", progression |-> "peaceful",   rhythm |-> "slow",       tempo |-> 800, pattern |-> "gentle"],
     joy      |-> [scale |-> "major",      progression |-> "happy",      rhythm |-> "fast",       tempo |-> 300, pattern |-> "jumping"],
     sadness  |-> [scale |-> "minor",      progression |-> "sad",        rhythm |-> "slow",       tempo |-> 900, pattern |-> "descending"],
     romantic |-> [scale |-> "major",      progression |-> "romantic",   rhythm |-> "moderate",   tempo |-> 500, pattern |-> "flowing"],
     epic     |-> [scale |-> "major",      progression |-> "epic",       rhythm |-> "syncopated", tempo |-> 400, pattern |-> "heroic"]]

\* The value null of AIComposer.currentComposition: a record with none of the
\* fields of a composition.
NullComposition == [null |-> TRUE]

\* The truthiness test of `this.moodConfigs[moodKey]`.
HasMoodProfile(moodKey) == moodKey \in DOMAIN moodConfigs

Comp ==
    [isPlaying |-> compIsPlaying, intervalId |-> compIntervalId,
     currentMood |-> compCurrentMood, currentComposition |-> currentComposition,
     timers |-> compTimers, gen |-> compGen]

\* The handle returned by setTimeout.
NewTimeoutId(c) ==
    LET used == {t.id : t \in c.timers} \cup {c.intervalId}
                \cup {t.id : t \in metTimers} \cup {metIntervalId}
    IN  CHOOSE i \in 1..(Cardinality(used) + 1) :
            i \notin used /\ \A j \in 1..(i - 1) : j \in used

\* setTimeout(callback, delay) at time t; the callback is named by its kind
\* ("tick", "chord" or "release"), its note and the cursors it closes over.
SetTimeout(c, kind, note, cursors, t, delay) ==
    [c EXCEPT !.timers = @ \cup {[id |-> NewTimeoutId(c), kind |-> kind, note |-> note,
                                  cursors |-> cursors, due |-> t + delay]}]

NoCursors == [melodyIndex |-> 0, chordIndex |-> 0, rhythmIndex |-> 0, gen |-> 0]

\* The callbacks that close over no cursor still belong to a playComposition
\* call: gen tells which.
OfGen(gen) == [NoCursors EXCEPT !.gen = gen]

\* The forEach body with its test left out.
ChordNoteDiffersNever(chordNote, note) == TRUE

\* chordNote !== note
ChordNoteDiffers(chordNote, note) == chordNote # note

\* chord.forEach: a press 50 ms later for every chord note but the melody note.
RECURSIVE ForEachChordNote(_, _, _, _, _)
ForEachChordNote(c, chord, note, gen, t) ==
    IF Len(chord) = 0
    THEN c
    ELSE ForEachChordNote(IF ChordNoteDiffers(chord[1], note)
                          THEN SetTimeout(c, "chord", chord[1], OfGen(gen), t, 50)
                          ELSE c,
                          Tail(chord), note, gen, t)

\* The release after the whole duration.
ReleaseDelayWhole(duration) == duration

\* duration * 0.8, as setTimeout takes it: a whole number of ms.
ReleaseDelay(duration) == (duration * 8) \div 10

\* stop() that cancels every timer of the composer.
composerStopClearsAll(c) ==
    [c EXCEPT !.isPlaying = FALSE,
              !.timers = {},
              !.intervalId = 0,
              !.currentMood = "null"]

\* stop() without clearTimeout.
composerStopKeepsTimer(c) ==
    [c EXCEPT !.isPlaying = FALSE,
              !.intervalId = 0,
              !.currentMood = "null"]

\* stop() that leaves isPlaying alone.
composerStopKeepsPlaying(c) ==
    [c EXCEPT !.timers = IF c.intervalId # 0 THEN {t \in @ : t.id # c.intervalId} ELSE @,
              !.intervalId = 0,
              !.currentMood = "null"]

\* AIComposer.stop()
composerStop(c) ==
    [c EXCEPT !.isPlaying = FALSE,
              !.timers = IF c.intervalId # 0 THEN {t \in @ : t.id # c.intervalId} ELSE @,
              !.intervalId = 0,
              !.currentMood = "null"]

\* A cursor that runs off the end of its sequence.
NextCursorNoWrap(index, length) == index + 1

\* (index + 1) % length
NextCursor(index, length) == (index + 1) % length

\* The note playNextNote presses.
NextNote(c, cursors) == c.currentComposition.melody[cursors.melodyIndex + 1]

\* playNextNote past its isPlaying guard, apart from the press itself: the
\* timers it sets and the cursors it advances, with the draw r, at time t.
playNextNote(c, cursors, r, t) ==
    LET comp == c.currentComposition
        note == NextNote(c, cursors)
        withChord == r > 70
        c1 == IF withChord
              THEN ForEachChordNote(c, comp.chords[cursors.chordIndex + 1], note, cursors.gen, t)
              ELSE c
        duration == comp.rhythmPattern[cursors.rhythmIndex + 1]
        c2 == SetTimeout(c1, "release", note, OfGen(cursors.gen), t, ReleaseDelay(duration))
        moved == [melodyIndex |-> NextCursor(cursors.melodyIndex, Len(comp.melody)),
                  chordIndex |-> IF withChord
                                 THEN NextCursor(cursors.chordIndex, Len(comp.chords))
                                 ELSE cursors.chordIndex,
                  rhythmIndex |-> NextCursor(cursors.rhythmIndex, Len(comp.rhythmPattern)),
                  gen |-> cursors.gen]
        id == NewTimeoutId(c2)
    IN  [SetTimeout(c2, "tick", "-", moved, t, duration) EXCEPT !.intervalId = id]

\* compose(moodKey) up to the call of playComposition, with the draws rs of
\* generateMelody.
composeSetup(c, moodKey, rs) ==
    LET c0 == IF c.isPlaying THEN composerStop(c) ELSE c
    IN  IF ~HasMoodProfile(moodKey)
        THEN c0
        ELSE LET config == moodConfigs[moodKey]
             IN  [c0 EXCEPT !.currentMood = moodKey,
                            !.isPlaying = TRUE,
                            !.gen = @ + 1,
                            !.currentComposition =
                                [melody |-> generateMelody(config, rs),
                                 chords |-> chordProgressions[config.progression],
                                 rhythmPattern |-> rhythms[config.rhythm],
                                 tempo |-> config.tempo]]

SetComp(c) ==
    /\ compIsPlaying' = c.isPlaying
    /\ compIntervalId' = c.intervalId
    /\ compCurrentMood' = c.currentMood
    /\ currentComposition' = c.currentComposition
    /\ compTimers' = c.timers
    /\ compGen' = c.gen

CompFrame == UNCHANGED <<now, pbVars, masterGain, metVars, pureVars>>

\* What a handler of the composer that calls clearTimeout(id) leaves alone;
\* id is 0 when the call is not made.
CompClearFrame(id) ==
    /\ metTimers' = ClearTimer(metTimers, id)
    /\ UNCHANGED <<metIsPlaying, metIntervalId, metTicks>>
    /\ UNCHANGED <<now, pbVars, masterGain, pureVars>>

\* VirtualPiano.composeMusic(moodKey): compose, and with a profile the first
\* playNextNote at once.  lastOp tells whether compose went through stop().
Compose(moodKey) ==
    /\ Ready
    /\ IF HasMoodProfile(moodKey)
       THEN /\ compGen < MaxComposes
            /\ \E rs \in MelodyDraws(moodConfigs[moodKey].pattern), r \in RandomValues :
                  LET c == composeSetup(Comp, moodKey, rs)
                      cursors == [NoCursors EXCEPT !.gen = c.gen]
                      note == NextNote(c, cursors)
                  IN  /\ CanPlay(Engine, note)
                      /\ CanRecord
                      /\ pressKey(note)
                      /\ SetComp(playNextNote(c, cursors, r, now))
       ELSE /\ SetComp(composeSetup(Comp, moodKey, <<>>))
            /\ UNCHANGED <<vmVars, recVars>>
    /\ lastOp' = Op(IF compIsPlaying THEN "compose/stop" ELSE "compose", moodKey)
    /\ CompClearFrame(IF compIsPlaying THEN compIntervalId ELSE 0)

\* VirtualPiano.stopComposer()
StopComposer ==
    /\ Ready
    /\ SetComp(composerStop(Comp))
    /\ UNCHANGED <<vmVars, recVars>>
    /\ lastOp' = QuietOp("composer.stop", "-")
    /\ CompClearFrame(compIntervalId)

\* The tick timer comes due: playNextNote.
CompTick ==
    /\ Ready
    /\ \E t \in compTimers :
          /\ t.kind = "tick"
          /\ t.due <= now
          /\ LET c == [Comp EXCEPT !.timers = @ \ {t}]
             IN  IF ~c.isPlaying
                 THEN /\ SetComp(c)
                      /\ UNCHANGED <<vmVars, recVars>>
                      /\ lastOp' = QuietOp("composer.tick", "-")
                 ELSE \E r \in RandomValues :
                         LET note == NextNote(c, t.cursors)
                         IN  /\ CanPlay(Engine, note)
                             /\ CanRecord
                             /\ pressKey(note)
                             /\ SetComp(playNextNote(c, t.cursors, r, now))
                             /\ lastOp' = Op("composer.tick", note)
    /\ CompFrame

\* A chord timer comes due: the chord note is pressed.
CompChord ==
    /\ Ready
    /\ \E t \in compTimers :
          /\ t.kind = "chord"
          /\ t.due <= now
          /\ CanPlay(Engine, t.note)
          /\ CanRecord
          /\ pressKey(t.note)
          /\ SetComp([Comp EXCEPT !.timers = @ \ {t}])
          /\ lastOp' = Op("composer.chord", t.note)
    /\ CompFrame

\* A release timer comes due: the melody note is released.
CompRelease ==
    /\ Ready
    /\ \E t \in compTimers :
          /\ t.kind = "release"
          /\ t.due <= now
          /\ CanRecord
          /\ releaseKey(t.note)
          /\ SetComp([Comp EXCEPT !.timers = @ \ {t}])
          /\ lastOp' = Op("composer.release", t.note)
    /\ CompFrame

(***************************************************************************)
(* The system.                                                             *)
(***************************************************************************)
Init ==
    /\ activeNotes = <<>>
    /\ sustainActive = FALSE
    /\ sustainedNotes = {}
    /\ live = {}
    /\ masterGain = 700
    /\ metIsPlaying = FALSE
    /\ metIntervalId = 0
    /\ metTimers = {}
    /\ metTicks = <<>>
    /\ compIsPlaying = FALSE
    /\ compIntervalId = 0
    /\ compCurrentMood = "null"
    /\ currentComposition = NullComposition
    /\ compTimers = {}
    /\ compGen = 0
    /\ analyzedText = <<>>
    /\ analyzedMood = "-"
    /\ melPc = "idle"
    /\ melScale = "major"
    /\ melPattern = "other"
    /\ melI = 0
    /\ melCurrentIndex = 0
    /\ melody = <<>>
    /\ melReads = {}
    /\ melDraws = 0
    /\ recording = FALSE
    /\ recordedNotes = <<>>
    /\ startTime = 0
    /\ captured = 0
    /\ now = 0
    /\ pbPc = "idle"
    /\ pbIdx = 1
    /\ pbStart = 0
    /\ pbWake = 0
    /\ pbShared = TRUE
    /\ pbOld = <<>>
    /\ pbSnap = <<>>
    /\ sinkLog = <<>>
    /\ lastOp = [op |-> "init", arg |-> "-", stopped |-> {}]

\* The audio engine under the user's keys and pedal (the recorder stays idle).
NextEngine ==
    \/ \E note \in InputNotes : PressKey(note)
    \/ \E note \in InputNotes : ReleaseKey(note)
    \/ \E active \in BOOLEAN : SetSustain(active)
    \/ \E value \in VolumeInputs : SetVolume(value)

\* The recorder and its playback under the user's keys (the pedal stays up).
NextRecorder ==
    \/ \E note \in RecorderNotes : PressKey(note)
    \/ \E note \in RecorderNotes : ReleaseKey(note)
    \/ StartRecording
    \/ StopRecording
    \/ Tick
    \/ Playback
    \/ PbLoop
    \/ PbTimer
    \/ PbReturn

\* The metronome under its button and the clock.
NextMetronome ==
    \/ MetStart
    \/ MetStop
    \/ ToggleMetronome
    \/ MetTimer
    \/ Advance

\* The mood analysis over the texts.
NextMood ==
    \/ \E word \in MoodWords :
          /\ WordCount(analyzedText) < MaxWords
          /\ AnalyzeMood(AddWord(analyzedText, word))
    \/ AnalyzeMood(ExampleText)

\* The melody generator over every scale and pattern tag.
NextMelody ==
    \/ \E scaleName \in DOMAIN scales, pattern \in PatternTags : GenerateMelody(scaleName, pattern)
    \/ MelStep
    \/ MelReturn
    \/ MelTaken

\* The composer under its buttons and the clock.
NextComposer ==
    \/ \E moodKey \in ComposerMoods : Compose(moodKey)
    \/ StopComposer
    \/ CompTick
    \/ CompChord
    \/ CompRelease
    \/ Advance

\* One composition left to play on its own until it is stopped.
NextLoop ==
    \/ \E moodKey \in LoopMoods : compGen = 0 /\ Compose(moodKey)
    \/ StopComposer
    \/ CompTick
    \/ CompChord
    \/ CompRelease
    \/ Elapse

\* The metronome and one composition side by side, each under its own
\* buttons, on the one table of timer handles.
NextTimers ==
    \/ MetStart
    \/ MetStop
    \/ ToggleMetronome
    \/ MetTimer
    \/ \E moodKey \in TimerMoods : compGen = 0 /\ Compose(moodKey)
    \/ StopComposer
    \/ CompTick
    \/ CompChord
    \/ CompRelease
    \/ Advance

Next ==
    \/ NextTimers
    \/ NextLoop
    \/ NextComposer
    \/ NextMelody
    \/ NextMood
    \/ NextEngine
    \/ NextRecorder
    \/ NextMetronome

Spec == Init /\ [][Next]_vars

SpecEngine == Init /\ [][NextEngine]_vars

SpecRecorder == Init /\ [][NextRecorder]_vars

SpecMetronome == Init /\ [][NextMetronome]_vars

SpecMood == Init /\ [][NextMood]_vars

SpecMelody == Init /\ [][NextMelody]_vars

SpecComposer == Init /\ [][NextComposer]_vars

SpecLoop == Init /\ [][NextLoop]_vars

SpecTimers == Init /\ [][NextTimers]_vars

(***************************************************************************)
(* Properties of the audio engine (specification SpecEngine).              *)
(***************************************************************************)

\* C1: every Voice that was started and has not had stop() invoked is the
\* one stored in the active map under its note (no ghost voices).
C1_NoGhostVoice ==
    \A v \in live : \E n \in DOMAIN activeNotes : activeNotes[n] = v

\* C2: a setSustain(false) step leaves the held-set empty, and every note
\* that was held has no entry in the active map and its Voice is stopped.
C2_SustainOffFlushes ==
    [][SetSustain(FALSE) =>
          /\ sustainedNotes' = {}
          /\ \A n \in sustainedNotes :
                /\ n \notin DOMAIN activeNotes'
                /\ n \in DOMAIN activeNotes => activeNotes[n] \notin live']_vars

\* A setSustain(false) has just flushed two sounding held notes.
C2_Witness ==
    /\ lastOp.op = "setSustain"
    /\ lastOp.arg = "false"
    /\ Cardinality(lastOp.stopped) = 2
    /\ activeNotes = <<>>

\* C3: a release while sustain is active leaves the active map and every
\* Voice alone and adds the note to the held-set; and while sustain stays
\* active a held note's Voice leaves the map or changes only by
\* setSustain(false) or by a press of that note.
C3_SustainedReleaseKeepsVoice ==
    [][\A n \in InputNotes :
          /\ (sustainActive /\ ReleaseKey(n)) =>
                /\ activeNotes' = activeNotes
                /\ live' = live
                /\ sustainedNotes' = sustainedNotes \cup {n}
                /\ sustainActive'
          /\ ( /\ sustainActive
               /\ n \in sustainedNotes
               /\ n \in DOMAIN activeNotes
               /\ \/ n \notin DOMAIN activeNotes'
                  \/ activeNotes[n] \notin live'
                  \/ activeNotes'[n] # activeNotes[n] ) =>
                (SetSustain(FALSE) \/ PressKey(n))]_vars

\* The note of the first key has been released under sustain and still sounds.
C3_Witness ==
    /\ lastOp.op = "releaseKey"
    /\ lastOp.arg = "C4"
    /\ sustainActive
    /\ "C4" \in sustainedNotes
    /\ "C4" \in DOMAIN activeNotes
    /\ activeNotes["C4"] \in live

\* C4: the held-set is non-empty only while the sustain flag is set.
C4_HeldOnlyWhileSustain ==
    sustainedNotes # {} => sustainActive

\* Sustain is active with two held notes.
C4_Witness ==
    /\ sustainActive
    /\ {"C4", "E4"} \subseteq sustainedNotes

\* C5: a press or a release with an identifier outside the note table
\* leaves the active map, the sustain flag and the held-set unchanged.
C5_UnknownNoteIsNoOp ==
    [][\A n \in InputNotes :
          (~HasFrequency(n) /\ (PressKey(n) \/ ReleaseKey(n))) =>
              UNCHANGED <<activeNotes, sustainActive, sustainedNotes>>]_vars

(***************************************************************************)
(* Properties of the recorder and its playback (specification              *)
(* SpecRecorder).                                                          *)
(***************************************************************************)
SameEvent(d, ev) ==
    /\ d.note = ev.note
    /\ d.timestamp = ev.timestamp
    /\ d.isPress = ev.isPress

\* C6: playback dispatches exactly the events that were in the recording
\* when it was started, each once and in recorded order: what it has
\* dispatched so far is a prefix of that recording, and all of it once the
\* call has returned.
C6_PlaybackReplaysSnapshot ==
    /\ Len(sinkLog) <= Len(pbSnap)
    /\ \A i \in 1..Len(sinkLog) : i <= Len(pbSnap) => SameEvent(sinkLog[i], pbSnap[i])
    /\ pbPc = "done" => Len(sinkLog) = Len(pbSnap)

\* The recording of the round-trip example: press C4 at 0, release C4 at 500.
ExampleRecording ==
    << [note |-> "C4", timestamp |-> 0, isPress |-> TRUE],
       [note |-> "C4", timestamp |-> 500, isPress |-> FALSE] >>

\* C7: an event of offset t is never dispatched before playback-start + t,
\* dispatches come in non-decreasing offset order and in non-decreasing
\* time; replaying the example recording, the sink sees press(C4) and then
\* release(C4), the release no earlier than 500 ms after playback start.
C7_PlaybackTiming ==
    /\ \A i \in 1..Len(sinkLog) : sinkLog[i].at >= pbStart + sinkLog[i].timestamp
    /\ \A i, j \in 1..Len(sinkLog) :
          i < j => /\ sinkLog[i].timestamp <= sinkLog[j].timestamp
                   /\ sinkLog[i].at <= sinkLog[j].at
    /\ pbSnap = ExampleRecording =>
          /\ Len(sinkLog) >= 1 => (sinkLog[1].note = "C4" /\ sinkLog[1].isPress)
          /\ Len(sinkLog) >= 2 =>
                /\ sinkLog[2].note = "C4"
                /\ ~sinkLog[2].isPress
                /\ sinkLog[2].at >= pbStart + 500

\* The example recording has been replayed to its end, the release fired
\* by a timer that came late.
C7_Witness ==
    /\ pbSnap = ExampleRecording
    /\ pbPc = "done"
    /\ Len(sinkLog) = 2
    /\ sinkLog[1].isPress
    /\ ~sinkLog[2].isPress
    /\ sinkLog[2].at > pbStart + 500

\* A step in which playback calls pressKey or releaseKey on the piano.
PbDispatches == (PbLoop \/ PbTimer) /\ Len(sinkLog') = Len(sinkLog) + 1

\* C8: a dispatch of playback does not change the recorded sequence.
C8_PlaybackNotCaptured ==
    [][PbDispatches => recordedNotes' = recordedNotes]_vars

\* A step that calls recordNote(n, p): a key handler of the user or a
\* dispatch of playback.
CallsRecordNote(n, p) ==
    \/ IF p THEN PressKey(n) ELSE ReleaseKey(n)
    \/ /\ PbDispatches
       /\ sinkLog'[Len(sinkLog')].note = n
       /\ sinkLog'[Len(sinkLog')].isPress = p

\* C9: recordNote(note, isPress) leaves the sequence, the anchor and the
\* state unchanged when not recording, and when recording appends exactly
\* the event (note, now - anchor, isPress) and changes nothing else of the
\* recorder.
C9_RecordOnlyWhileRecording ==
    [][\A n \in RecorderNotes, p \in BOOLEAN :
          CallsRecordNote(n, p) =>
             IF recording
             THEN /\ recordedNotes' =
                        Append(recordedNotes,
                               [note |-> n, timestamp |-> now - startTime, isPress |-> p])
                  /\ UNCHANGED <<recording, startTime>>
             ELSE UNCHANGED <<recording, recordedNotes, startTime>>]_vars

\* A release has just been recorded at offset 500 after a press at offset 0.
C9_Witness ==
    /\ recording
    /\ lastOp.op = "releaseKey"
    /\ recordedNotes = ExampleRecording

\* C10: startRecording empties the sequence and enters Recording;
\* stopRecording leaves the sequence unchanged and leaves Recording, and
\* hasRecording is then true exactly when the session captured an event.
C10_StartClearsStopKeeps ==
    [][/\ StartRecording => (recordedNotes' = <<>> /\ recording')
       /\ StopRecording =>
             /\ recordedNotes' = recordedNotes
             /\ ~recording'
             /\ hasRecording(Recorder)' <=> captured > 0]_vars

\* A session that captured two events has just been stopped.
C10_Witness ==
    /\ lastOp.op = "stopRecording"
    /\ ~recording
    /\ captured = 2
    /\ hasRecording(Recorder)

\* s is an initial segment of t.
IsPrefix(s, t) == Len(s) <= Len(t) /\ \A i \in 1..Len(s) : s[i] = t[i]

\* C11: under the non-decreasing clock the recorded offsets are
\* non-negative and non-decreasing in insertion order, and every step
\* other than startRecording only appends to the recorded sequence (no
\* event is removed, reordered or rewritten).
C11_OffsetsMonotoneAppendOnly ==
    /\ [](/\ \A i \in 1..Len(recordedNotes) : recordedNotes[i].timestamp >= 0
          /\ \A i, j \in 1..Len(recordedNotes) :
                i < j => recordedNotes[i].timestamp <= recordedNotes[j].timestamp)
    /\ [][~StartRecording => IsPrefix(recordedNotes, recordedNotes')]_vars

\* A session anchored at 500 holds an event of offset 0 and one of offset 1000.
C11_Witness ==
    /\ recording
    /\ startTime = 500
    /\ Len(recordedNotes) = 2
    /\ recordedNotes[1].timestamp = 0
    /\ recordedNotes[2].timestamp = 1000

\* C19: setVolume(percent) sets the master gain to percent / 100 (50 gives
\* 0.5, 0 gives 0) and leaves the active map, the sustain flag, the
\* held-set and every sounding Voice alone; a press leaves the master gain
\* alone.
C19_VolumeScalesGainOnly ==
    [][/\ \A value \in VolumeInputs :
             SetVolume(value) =>
                /\ masterGain' * 100 = value * 1000
                /\ value = 50 => masterGain' = 500
                /\ value = 0 => masterGain' = 0
                /\ UNCHANGED <<activeNotes, sustainActive, sustainedNotes, live>>
       /\ \A n \in InputNotes : PressKey(n) => masterGain' = masterGain]_vars

\* The volume has just been set to 50 while two Voices sound.
C19_Witness ==
    /\ lastOp.op = "setVolume"
    /\ masterGain = 500
    /\ Cardinality(live) = 2

\* C20: a release while sustain is inactive stops and removes the note's
\* Voice if it has one and otherwise changes nothing; the Voices of the
\* other notes, the sustain flag and the held-set are unchanged.
C20_ReleaseStopsOnlyThatVoice ==
    [][\A n \in InputNotes :
          (~sustainActive /\ ReleaseKey(n)) =>
             /\ IF n \in DOMAIN activeNotes
                THEN /\ activeNotes' = MapDelete(activeNotes, n)
                     /\ live' = live \ {activeNotes[n]}
                ELSE UNCHANGED <<activeNotes, live>>
             /\ UNCHANGED <<sustainActive, sustainedNotes>>]_vars

\* One of two sounding notes has just been released with sustain inactive.
C20_Witness ==
    /\ lastOp.op = "releaseKey"
    /\ lastOp.arg = "C4"
    /\ lastOp.stopped # {}
    /\ ~sustainActive
    /\ DOMAIN activeNotes = {"E4"}

(***************************************************************************)
(* Properties of the metronome (specification SpecMetronome).              *)
(***************************************************************************)
\* C18: the metronome has a pending interval timer exactly when it is
\* running and never more than one; start() while running changes nothing;
\* start() when stopped ticks at once and then every 60000/bpm = 500 ms;
\* once stopped no tick is emitted until the next start().
C18_MetronomeOneTimer ==
    /\ [](/\ metIsPlaying <=> metTimers # {}
          /\ Cardinality(metTimers) <= 1
          /\ metIsPlaying =>
                /\ metTimers = {[id |-> metIntervalId, due |-> metTicks[Len(metTicks)] + 500]}
                /\ \A i \in 1..Len(metTicks) : metTicks[i] = metTicks[1] + (i - 1) * (60000 \div bpm)
                /\ now <= metTicks[Len(metTicks)] + 500)
    /\ [][/\ (MetStart /\ metIsPlaying) => UNCHANGED metVars
          /\ (MetStart /\ ~metIsPlaying) => (metIsPlaying' /\ metTicks' = <<now>>)
          /\ (~metIsPlaying /\ ~metIsPlaying') => metTicks' = metTicks
          /\ MetStop => ~metIsPlaying']_vars

\* Started at 250 ms, the metronome has ticked at 250, 750 and 1250 ms.
C18_Witness ==
    /\ metIsPlaying
    /\ metTicks = <<250, 750, 1250>>

(***************************************************************************)
(* Properties of the mood analysis (specification SpecMood).               *)
(***************************************************************************)
\* The score of every mood on the lower-cased text, in table order.
MoodScores(text) ==
    [i \in 1..Len(keywords) |-> KeywordScore(toLowerCase(text), keywords[i].words)]

\* The reference: the first mood in table order whose score is the maximum,
\* the fallback when the maximum is 0.
ReferenceMood(text) ==
    LET sc == MoodScores(text)
        top == CHOOSE m \in {sc[i] : i \in 1..Len(sc)} : \A i \in 1..Len(sc) : sc[i] <= m
    IN  IF top = 0 THEN "peaceful"
        ELSE keywords[CHOOSE i \in 1..Len(sc) : sc[i] = top /\ \A j \in 1..(i - 1) : sc[j] # top].mood

\* C15: analyzeMood(text) is the reference function of the text (lower-case,
\* count each mood's keywords occurring as substrings, first mood in table
\* order with the maximal score, the fallback when that score is 0), and
\* "I feel the rain and thunder" (rain 1, storm 1) gives rain.
C15_AnalyzeMoodIsReference ==
    /\ lastOp.op = "analyzeMood" => analyzedMood = ReferenceMood(analyzedText)
    /\ (lastOp.op = "analyzeMood" /\ analyzedText = ExampleText) => analyzedMood = "rain"

\* A tie between two moods has been analysed: the upper-case "Sunrise"
\* scores 1 for summer (sun) and 1 for sunrise.
C15_Witness ==
    /\ lastOp.op = "analyzeMood"
    /\ MoodScores(analyzedText)[2] = 1
    /\ MoodScores(analyzedText)[7] = 1
    /\ analyzedMood = "summer"

(***************************************************************************)
(* Properties of the melody generator (specification SpecMelody).          *)
(***************************************************************************)
ScaleNotes(scaleName) == {scales[scaleName][k] : k \in 1..Len(scales[scaleName])}

\* C16, as stated: generateMelody reads only positions of the scale in
\* [0, len-1], every element of the melody is a defined member of the scale
\* and the returned melody is not empty.
C16_ReadsInRange ==
    /\ melReads \subseteq 0..(Len(scales[melScale]) - 1)
    /\ \A k \in 1..Len(melody) : melody[k] \in ScaleNotes(melScale)
    /\ melPc = "done" => Len(melody) > 0

\* C16, amended: every element of the melody is a defined member of the
\* scale and the returned melody is not empty; every read is inside the
\* scale except the heroic branch's probe of position 9, which is outside a
\* scale of fewer than ten notes and is then replaced by position 7.
C16_MelodyDefined ==
    /\ \A k \in melReads :
          \/ k \in 0..(Len(scales[melScale]) - 1)
          \/ melPattern = "heroic" /\ k = 9
    /\ \A k \in 1..Len(melody) : melody[k] \in ScaleNotes(melScale)
    /\ melPc = "done" => Len(melody) > 0
    /\ (melPc = "done" /\ melPattern = "heroic") =>
          melody[5] = At(scales[melScale], IF Len(scales[melScale]) > 9 THEN 9 ELSE 7)

\* The heroic melody on the eight-note pentatonic scale has been returned.
C16_Witness ==
    /\ melPc = "done"
    /\ melPattern = "heroic"
    /\ melScale = "pentatonic"
    /\ 9 \in melReads
    /\ melody[5] = "E5"

\* C17: the ascending pattern on a scale of 8 or more notes yields
\* scale[0..7] in order and the sparse pattern yields scale[0], scale[2],
\* scale[4], scale[6]; neither draws a random number.
C17_AscendingSparseFixed ==
    (melPc = "done" /\ Len(scales[melScale]) >= 8) =>
        /\ melPattern = "ascending" =>
              /\ melody = SubSeq(scales[melScale], 1, 8)
              /\ melDraws = 0
        /\ melPattern = "sparse" =>
              /\ melody = <<scales[melScale][1], scales[melScale][3],
                            scales[melScale][5], scales[melScale][7]>>
              /\ melDraws = 0

\* The sparse melody on the blues scale has been returned.
C17_Witness ==
    /\ melPc = "done"
    /\ melPattern = "sparse"
    /\ melScale = "blues"
    /\ melody = <<"C4", "F4", "G4", "C5">>

(***************************************************************************)
(* Properties of the composer (specification SpecComposer).                *)
(***************************************************************************)
TickTimers == {t \in compTimers : t.kind = "tick"}

\* C12: at most one composer tick is pending at any instant, and it belongs
\* to the composition started last; compose while a composition is running
\* leaves only the new composition's tick pending, and every tick that fires
\* is one of the composition started last.
C12_OneTickPending ==
    /\ [](/\ Cardinality(TickTimers) <= 1
          /\ \A t \in TickTimers : t.id = compIntervalId /\ t.cursors.gen = compGen)
    /\ [][/\ \A m \in ComposerMoods :
                (compIsPlaying /\ HasMoodProfile(m) /\ Compose(m)) =>
                    /\ Cardinality(TickTimers') = 1
                    /\ \A t \in TickTimers' : t.cursors.gen = compGen + 1
          /\ CompTick => \A t \in TickTimers \ TickTimers' : t.cursors.gen = compGen]_vars

\* A second composition has just been started while the first was running:
\* compose went through stop(), one tick is pending, and the releases of the
\* first notes of both compositions are.
C12_Witness ==
    /\ compGen = 2
    /\ compCurrentMood = "sunrise"
    /\ lastOp.op = "compose/stop"
    /\ Cardinality(TickTimers) = 1
    /\ Cardinality({t \in compTimers : t.kind = "release"}) = 2

\* C13: compose with a mood key that has no profile is a no-op in every
\* composer state: isPlaying, the current mood, the current composition and
\* the pending timers are unchanged.
C13_UnknownMoodIsNoOp ==
    [][\A m \in ComposerMoods :
          (~HasMoodProfile(m) /\ Compose(m)) =>
              UNCHANGED <<compIsPlaying, compCurrentMood, currentComposition, compTimers>>]_vars

\* C14: stop() leaves the composer not playing with no tick timer pending;
\* while it is not playing no tick timer is pending, a tick callback that
\* runs then presses nothing and schedules nothing, and no step of the
\* composer that leaves it not playing presses a melody note.
C14_StopSilencesTicks ==
    /\ [](~compIsPlaying => TickTimers = {})
    /\ [][/\ StopComposer => (~compIsPlaying' /\ TickTimers' = {})
          /\ (~compIsPlaying /\ CompTick) =>
                (UNCHANGED <<vmVars, recVars>> /\ compTimers' \subseteq compTimers)
          /\ (~compIsPlaying /\ ~compIsPlaying' /\ (CompTick \/ \E m \in ComposerMoods : Compose(m))) =>
                UNCHANGED <<vmVars, recVars>>]_vars

\* The composer has just been stopped while a chord press was still pending.
C14_Witness ==
    /\ lastOp.op = "composer.stop"
    /\ ~compIsPlaying
    /\ \E t \in compTimers : t.kind = "chord"

(***************************************************************************)
(* Properties of one composition left to play (specification SpecLoop).    *)
(***************************************************************************)
\* A step that runs playNextNote past its guard: compose with a profile, or
\* a tick while playing.
StartsNote ==
    \/ CompTick /\ compIsPlaying
    \/ \E m \in LoopMoods : Compose(m)

\* The cursors playNextNote starts from in such a step: those of the tick
\* that fires, or the fresh ones of playComposition.
CursorsBefore ==
    IF TickTimers = {} THEN NoCursors ELSE (CHOOSE t \in TickTimers : TRUE).cursors

\* The timers set in the step.
NewTimers == compTimers' \ compTimers

\* Whether the step triggers a chord.
TriggersChord == \E t \in NewTimers : t.kind = "chord"

\* C21: the melody, chord and rhythm cursors stay within their own
\* sequences; a tick moves the melody and the rhythm cursor one step on,
\* modulo their own lengths, and the chord cursor one step on modulo the
\* chord count exactly when it triggers a chord.
C21_CursorsInRange ==
    /\ [](\A t \in TickTimers :
             /\ t.cursors.melodyIndex \in 0..(Len(currentComposition.melody) - 1)
             /\ t.cursors.chordIndex \in 0..(Len(currentComposition.chords) - 1)
             /\ t.cursors.rhythmIndex \in 0..(Len(currentComposition.rhythmPattern) - 1))
    /\ [][StartsNote =>
            \E t \in TickTimers' :
               LET old == CursorsBefore
                   comp == currentComposition'
                   wrap(i, n) == IF i + 1 = n THEN 0 ELSE i + 1
               IN  /\ t.cursors.melodyIndex = wrap(old.melodyIndex, Len(comp.melody))
                   /\ t.cursors.rhythmIndex = wrap(old.rhythmIndex, Len(comp.rhythmPattern))
                   /\ t.cursors.chordIndex =
                         IF TriggersChord THEN wrap(old.chordIndex, Len(comp.chords))
                         ELSE old.chordIndex]_vars

\* The fourth tick of the winter composition, every tick with a chord: all
\* three cursors are back at 0 and the fourth chord's presses are pending.
C21_Witness ==
    /\ compCurrentMood = "winter"
    /\ now = 2800
    /\ lastOp.op = "composer.tick"
    /\ \E t \in TickTimers :
          t.cursors.melodyIndex = 0 /\ t.cursors.chordIndex = 0 /\ t.cursors.rhythmIndex = 0
    /\ \E t \in compTimers : t.kind = "chord" /\ t.note = "F4"

\* C22: a tick with rhythm duration d (the entry at the rhythm cursor before
\* it moves) sets the release of its melody note 0.8 * d and the next tick d
\* after itself, and when a tick presses its note the release of the tick
\* before has fired.
C22_ReleaseBeforeNextTick ==
    [][StartsNote =>
          LET old == CursorsBefore
              comp == currentComposition'
              note == comp.melody[old.melodyIndex + 1]
              d == comp.rhythmPattern[old.rhythmIndex + 1]
          IN  /\ \E r \in NewTimers :
                    r.kind = "release" /\ r.note = note /\ r.due * 10 = now * 10 + 8 * d
              /\ \A r \in NewTimers : r.kind = "release" => r.note = note
              /\ \E t \in TickTimers' : t.due = now + d
              /\ \A r \in NewTimers, t \in TickTimers' : r.kind = "release" => r.due < t.due
              /\ \A r \in compTimers : r.kind # "release"]_vars

\* The release set by the second tick of the winter composition (at 800 ms,
\* duration 1200) has just fired at 1760 ms; the next tick is due at 2000.
C22_Witness ==
    /\ compCurrentMood = "winter"
    /\ lastOp.op = "composer.release"
    /\ now = 1760
    /\ \E t \in TickTimers : t.due = 2000

\* C23: a tick that triggers a chord sets one press for every note of the
\* chord at the chord cursor but its own melody note, 50 ms later, which is
\* before the next tick; the next tick is due one duration after the tick
\* whether or not a chord is triggered, and when a tick fires the chord
\* presses of the tick before have fired.
C23_ChordPressesButMelodyNote ==
    [][StartsNote =>
          LET old == CursorsBefore
              comp == currentComposition'
              note == comp.melody[old.melodyIndex + 1]
              d == comp.rhythmPattern[old.rhythmIndex + 1]
              chord == comp.chords[old.chordIndex + 1]
              others == {chord[k] : k \in 1..Len(chord)} \ {note}
              presses == {t \in NewTimers : t.kind = "chord"}
          IN  /\ presses # {} =>
                    /\ {t.note : t \in presses} = others
                    /\ Cardinality(presses) = Cardinality(others)
                    /\ \A t \in presses : t.due = now + 50 /\ t.due < now + d
              /\ \E t \in TickTimers' : t.due = now + d
              /\ \A t \in compTimers : t.kind # "chord"]_vars

\* The sunrise composition has just started with a chord: its first note C4
\* is in the chord C4 E4 G4, and presses of E4 and G4 only are pending.
C23_Witness ==
    /\ compCurrentMood = "sunrise"
    /\ lastOp.op = "compose"
    /\ "C4" \in DOMAIN activeNotes
    /\ {t.note : t \in {u \in compTimers : u.kind = "chord"}} = {"E4", "G4"}

(***************************************************************************)
(* The playful branch (specification SpecMelody).                          *)
(***************************************************************************)
\* Every value of Math.random() to two decimal places.
AllDraws == 0..99

\* The notes the playful branch can push at step melI, over every draw.
PlayfulChoices ==
    {LET g == Iteration("playful", scales[melScale], Mel, r)
     IN  g.melody[Len(g.melody)] : r \in AllDraws}

\* C24: at step i the playful pattern selects scale[clamp(i + o, 0, len-1)]
\* with the random offset o ranging over exactly {-2, -1, 0, 1, 2}: the notes
\* that can be pushed at step i are exactly those five positions.
C24_PlayfulOffsets ==
    (melPc = "run" /\ melPattern = "playful" /\ LoopGoesOn(melPattern, melI)) =>
        PlayfulChoices =
            {At(scales[melScale], MathMax(0, MathMin(Len(scales[melScale]) - 1, melI + o))) :
                o \in -2..2}

(***************************************************************************)
(* The two stop() methods on the shared table of timer handles             *)
(* (specification SpecTimers).                                             *)
(***************************************************************************)
\* The composer's timers that are not its tick: releases and chord presses.
CallbackTimers == compTimers \ TickTimers

C26_CompositionOnlyWhileComposing ==
    currentComposition # NullComposition => compIsPlaying

\* C27: the mood key analyzeMood returns has a profile in the mood table.
C27_AnalyzedMoodHasProfile ==
    lastOp.op = "analyzeMood" => HasMoodProfile(analyzedMood)

\* C28: once the composer has been stopped and all its callbacks have
\* fired, no Voice it started is left in the active map.
C28_ComposerNotesReleased ==
    (compGen > 0 /\ ~compIsPlaying /\ compTimers = {}) => DOMAIN activeNotes = {}

\* C29: while a release set by the composition started last is pending and
\* not yet due, the note its tick pressed still has its Voice: no release of
\* an earlier composition has stopped it.
C29_LaterVoiceKeptUntilOwnRelease ==
    \A r \in compTimers :
        (r.kind = "release" /\ r.cursors.gen = compGen /\ r.due > now) =>
            r.note \in DOMAIN activeNotes

\* C30: the held-set is a subset of the notes that have an active Voice.
C30_HeldSubsetOfActive ==
    sustainedNotes \subseteq DOMAIN activeNotes

\* C31: setSustain(false) never stops a note whose latest press/release
\* event is a press.  Taken right after a press of a note of the table, the
\* key of that note is still down: the step leaves the note its Voice.
C31_SustainOffSparesPressedKey ==
    [][(lastOp.op = "pressKey" /\ HasFrequency(lastOp.arg) /\ SetSustain(FALSE)) =>
            /\ lastOp.arg \in DOMAIN activeNotes'
            /\ activeNotes'[lastOp.arg] = activeNotes[lastOp.arg]
            /\ activeNotes[lastOp.arg] \in live']_vars

====
